---------------------------- MODULE Spec2Model ----------------------------
(***************************************************************************)
(* Model of the validation package of IonTracks: the dataset loader        *)
(* (validation/data_utils.py) and the comparison runner                    *)
(* (validation/comparison.py).                                             *)
(*                                                                         *)
(* A DataFrame is a sequence of columns; a column is a record              *)
(*   [name |-> column label, numeric |-> dtype is numeric, vals |-> cells] *)
(* Cells are integers.  Two distinguished integers stand for the cells     *)
(* that are no numbers: NaN (a missing cell) and Str (a text cell).        *)
(***************************************************************************)
EXTENDS Integers, Sequences, FiniteSets, TLC

VARIABLES
    csv,                    \* the table pd.read_csv returned for config.experimental_data_path
    config,                 \* the fields of ComparisonConfig the code reads
    pc,                     \* "start" | "done" | "ready" | "failed"
    exp_data,               \* ComparisonRunner.exp_data
    initial_results,        \* ComparisonRunner.initial_results
    continuous_results,     \* ComparisonRunner.continuous_results
    comparison_initial,     \* ComparisonRunner.comparison_initial
    comparison_continuous,  \* ComparisonRunner.comparison_continuous
    calls,                  \* the simulation calls of the most recent handler, in call order
    outcome                 \* what the most recent handler returned or raised

vars == <<csv, config, pc, exp_data, initial_results, continuous_results,
          comparison_initial, comparison_continuous, calls, outcome>>

-----------------------------------------------------------------------------
(* Values *)

None == "None"

NaN == -9999

Str == -8888

IsNumber(v) == v # NaN /\ v # Str

\* an Optional[pd.DataFrame] attribute: None, or a frame of rows
NoFrame == [set |-> FALSE, rows |-> <<>>]

Frame(rows) == [set |-> TRUE, rows |-> rows]

\* an Optional[int]: None is the empty sequence, n is <<n>>
NoSeed == <<>>

-----------------------------------------------------------------------------
(* Bounds of the model *)

MaxCols == 4

MaxLoadRows == 2

MaxRows == 3

MaxBaseSeed == 2

-----------------------------------------------------------------------------
(* validation/data_utils.py *)

REQUIRED_COLUMNS ==
    [energy          |-> <<"Energy_MeV", "energy_MeV", "E_MeV", "energy">>,
     ks              |-> <<"k_s", "ks", "recombination_factor", "collection_efficiency">>,
     dose_rate_air   |-> <<"dose_rate_air_Gy_s", "dose_rate_air", "doserate_air_Gy_s">>,
     dose_rate_water |-> <<"dose_rate_water_Gy_s", "dose_rate_water", "doserate_water_Gy_s">>]

Columns(df) == {df[i].name : i \in DOMAIN df}

NRows(df) == IF df = <<>> THEN 0 ELSE Len(df[1].vals)

\* df[name]: the positions of the columns labelled name (one, unless labels repeat)
Labelled(df, name) == {i \in DOMAIN df : df[i].name = name}

\* the column labelled name, where one column has the label
Col(df, name) == df[CHOOSE i \in DOMAIN df : df[i].name = name]

\* Mutant of find_column: the last matching alias instead of the first.
find_column_last(df, possible_names) ==
    LET hits == {i \in DOMAIN possible_names : possible_names[i] \in Columns(df)}
    IN  IF hits = {} THEN None
        ELSE possible_names[CHOOSE i \in hits : \A j \in hits : j <= i]

find_column(df, possible_names) ==
    LET hits == {i \in DOMAIN possible_names : possible_names[i] \in Columns(df)}
    IN  IF hits = {} THEN None
        ELSE possible_names[CHOOSE i \in hits : \A j \in hits : i <= j]

nan_count(col) == Cardinality({i \in DOMAIN col.vals : col.vals[i] = NaN})

Msg(kind, cols, n) == [kind |-> kind, cols |-> cols, n |-> n]

\* the messages of "for col in required: ... nan_count > 0"
NanErrors(df, required) ==
    LET f[i \in 0..Len(required)] ==
            IF i = 0 THEN <<>>
            ELSE IF nan_count(Col(df, required[i])) > 0
                 THEN Append(f[i - 1],
                             Msg("nan", <<required[i]>>, nan_count(Col(df, required[i]))))
                 ELSE f[i - 1]
    IN  f[Len(required)]

\* (df[c] <= 0).any() and (df[c] < 0).any(): a comparison with NaN is False
AnyLeq0(col) == \E i \in DOMAIN col.vals : col.vals[i] # NaN /\ col.vals[i] <= 0

AnyLt0(col) == \E i \in DOMAIN col.vals : col.vals[i] # NaN /\ col.vals[i] < 0

\* one "if not is_numeric_dtype ... else ..." block; strict is TRUE for "<= 0"
RangeErrors(df, c, strict) ==
    IF ~Col(df, c).numeric THEN <<Msg("not_numeric", <<c>>, 0)>>
    ELSE IF strict /\ AnyLeq0(Col(df, c)) THEN <<Msg("non_positive", <<c>>, 0)>>
    ELSE IF ~strict /\ AnyLt0(Col(df, c)) THEN <<Msg("negative", <<c>>, 0)>>
    ELSE <<>>

\* Mutant of CollectErrors: the checks stop at the first violation found.
CollectErrorsFirstOnly(df, required) ==
    LET all == NanErrors(df, required)
               \o RangeErrors(df, required[1], TRUE)
               \o RangeErrors(df, required[2], TRUE)
               \o RangeErrors(df, required[3], FALSE)
    IN  IF all = <<>> THEN <<>> ELSE <<all[1]>>

\* the checks after the two early returns, each appending to errors
CollectErrors(df, required) ==
    NanErrors(df, required)
    \o RangeErrors(df, required[1], TRUE)
    \o RangeErrors(df, required[2], TRUE)
    \o RangeErrors(df, required[3], FALSE)

\* Mutant of validate_experimental_data: every table is accepted.
ValidateAccepts(df, energy_column, ks_column, dose_rate_column) ==
    [ok |-> TRUE, errors |-> <<>>]

validate_experimental_data(df, energy_column, ks_column, dose_rate_column) ==
    LET required == <<energy_column, ks_column, dose_rate_column>>
        missing  == SelectSeq(required, LAMBDA c : c \notin Columns(df))
        errors   == CollectErrors(df, required)
    IN  IF missing # <<>>
        THEN [ok |-> FALSE, errors |-> <<Msg("missing", missing, 0)>>]
        ELSE IF NRows(df) = 0
        THEN [ok |-> FALSE, errors |-> <<Msg("empty", <<>>, 0)>>]
        ELSE [ok |-> Len(errors) = 0, errors |-> errors]

LoadResult(raised, exc, kind, tried, errors, cols, df) ==
    [raised |-> raised, exc |-> exc, kind |-> kind, tried |-> tried,
     errors |-> errors, cols |-> cols, df |-> df]

\* Mutant of ResolveColumn: auto-detection is tried first, the explicit name second.
ResolveColumnAliasFirst(df, given, aliases) ==
    IF find_column(df, aliases) # None THEN find_column(df, aliases) ELSE given

\* "if X_column is None: X_column = find_column(df, REQUIRED_COLUMNS[...])"
ResolveColumn(df, given, aliases) ==
    IF given = None THEN find_column(df, aliases) ELSE given

\* "Try air first, then water"
ResolveDoseRate(df, given) ==
    IF given # None THEN given
    ELSE IF find_column(df, REQUIRED_COLUMNS.dose_rate_air) # None
         THEN find_column(df, REQUIRED_COLUMNS.dose_rate_air)
         ELSE find_column(df, REQUIRED_COLUMNS.dose_rate_water)

\* the dict literal of df.rename: of two equal keys the later one stays
RenameLabel(name, e, k, d) ==
    IF name = d THEN "dose_rate_Gy_s"
    ELSE IF name = k THEN "k_s"
    ELSE IF name = e THEN "Energy_MeV"
    ELSE name

Rename(df, e, k, d) ==
    [i \in DOMAIN df |-> [df[i] EXCEPT !.name = RenameLabel(df[i].name, e, k, d)]]

\* df["dose_rate_Gy_s"] * 60
TimesSixty(col) ==
    [name |-> "dose_rate_Gy_min", numeric |-> TRUE,
     vals |-> [j \in DOMAIN col.vals |->
                  IF IsNumber(col.vals[j]) THEN col.vals[j] * 60 ELSE col.vals[j]]]

\* sorted(df['Energy_MeV'].unique()) compares a text cell with a float NaN
SortedRaises(col) ==
    /\ \E i \in DOMAIN col.vals : col.vals[i] = Str
    /\ \E i \in DOMAIN col.vals : col.vals[i] = NaN

load_experimental_data(df, energy_column, ks_column, dose_rate_column) ==
    LET e    == ResolveColumn(df, energy_column, REQUIRED_COLUMNS.energy)
        k    == ResolveColumn(df, ks_column, REQUIRED_COLUMNS.ks)
        d    == ResolveDoseRate(df, dose_rate_column)
        cols == [energy |-> e, ks |-> k, dose_rate |-> d]
        v    == validate_experimental_data(df, e, k, d)
        ren  == Rename(df, e, k, d)
        out  == IF "dose_rate_Gy_min" \notin Columns(ren)
                THEN Append(ren, TimesSixty(Col(ren, "dose_rate_Gy_s")))
                ELSE ren
    IN  IF e = None
        THEN LoadResult(TRUE, "ValueError", "column_not_found",
                        REQUIRED_COLUMNS.energy, <<>>, cols, <<>>)
        ELSE IF k = None
        THEN LoadResult(TRUE, "ValueError", "column_not_found",
                        REQUIRED_COLUMNS.ks, <<>>, cols, <<>>)
        ELSE IF d = None
        THEN LoadResult(TRUE, "ValueError", "column_not_found",
                        REQUIRED_COLUMNS.dose_rate_air \o REQUIRED_COLUMNS.dose_rate_water,
                        <<>>, cols, <<>>)
        ELSE IF ~v.ok
        THEN LoadResult(TRUE, "ValueError", "validation", <<>>, v.errors, cols, <<>>)
        ELSE IF /\ "dose_rate_Gy_min" \notin Columns(ren)
                /\ Cardinality(Labelled(ren, "dose_rate_Gy_s")) > 1
        THEN LoadResult(TRUE, "ValueError", "setitem", <<>>, <<>>, cols, <<>>)
        ELSE IF Labelled(out, "Energy_MeV") = {}
        THEN LoadResult(TRUE, "KeyError", "print", <<>>, <<>>, cols, <<>>)
        ELSE IF Cardinality(Labelled(out, "Energy_MeV")) > 1
        THEN LoadResult(TRUE, "AttributeError", "print", <<>>, <<>>, cols, <<>>)
        ELSE IF SortedRaises(Col(out, "Energy_MeV"))
        THEN LoadResult(TRUE, "TypeError", "print", <<>>, <<>>, cols, <<>>)
        ELSE LoadResult(FALSE, "", "", <<>>, <<>>, cols, out)

-----------------------------------------------------------------------------
(* validation/comparison.py *)

\* the rows of exp_data as iterrows() yields them: the index label of row i of
\* the model is i - 1 (the RangeIndex of read_csv)
ExpRows(df) ==
    LET energy == Col(df, "Energy_MeV").vals
        ks     == Col(df, "k_s").vals
        per_s  == Col(df, "dose_rate_Gy_s").vals
        per_m  == Col(df, "dose_rate_Gy_min").vals
    IN  [i \in 1..NRows(df) |->
            [index |-> i - 1, Energy_MeV |-> energy[i], k_s |-> ks[i],
             dose_rate_Gy_s |-> per_s[i], dose_rate_Gy_min |-> per_m[i]]]

\* hadrons.functions: a simulation call raises, or returns a one-row result
\* with a number
SimKs == {1, 2}

SimOutcomes == {[raised |-> TRUE, ks |-> NaN]} \cup {[raised |-> FALSE, ks |-> v] : v \in SimKs}

RECURSIVE Unique(_)
\* Series.unique(): the distinct cells in order of first appearance
Unique(s) ==
    IF s = <<>> THEN <<>>
    ELSE LET front == Unique(SubSeq(s, 1, Len(s) - 1))
         IN  IF s[Len(s)] \in {front[i] : i \in DOMAIN front} THEN front
             ELSE Append(front, s[Len(s)])

RECURSIVE Sorted(_)
\* sorted(): ascending
Sorted(s) ==
    IF s = <<>> THEN <<>>
    ELSE LET m    == CHOOSE i \in DOMAIN s : \A j \in DOMAIN s : s[i] <= s[j]
             rest == [j \in 1..(Len(s) - 1) |-> IF j < m THEN s[j] ELSE s[j + 1]]
         IN  <<s[m]>> \o Sorted(rest)

\* energies_MeV = sorted(self.exp_data["Energy_MeV"].unique())
Energies(rows) == Sorted(Unique([i \in DOMAIN rows |-> rows[i].Energy_MeV]))

InitialCall(energy) == [fn |-> "ks_initial_IonTracks", E_MeV_u |-> energy]

RECURSIVE InitialLoopBreak(_, _)
\* Mutant of InitialLoop: the first failing energy ends the loop.
InitialLoopBreak(energies, sim) ==
    IF energies = <<>> THEN [calls |-> <<>>, list |-> <<>>]
    ELSE LET n    == Len(energies)
             done == InitialLoopBreak(SubSeq(energies, 1, n - 1), sim)
         IN  IF Len(done.calls) < n - 1 \/ (n > 1 /\ sim[n - 1].raised) THEN done
             ELSE [calls |-> Append(done.calls, InitialCall(energies[n])),
                   list  |-> IF sim[n].raised THEN done.list
                             ELSE Append(done.list,
                                         [E_MeV_u |-> energies[n], ks |-> sim[n].ks])]

RECURSIVE InitialLoop(_, _)
\* "for energy_MeV in energies_MeV: try ... append(result) except ... continue":
\* the calls made and initial_results_list after the loop
InitialLoop(energies, sim) ==
    IF energies = <<>> THEN [calls |-> <<>>, list |-> <<>>]
    ELSE LET n    == Len(energies)
             done == InitialLoop(SubSeq(energies, 1, n - 1), sim)
         IN  [calls |-> Append(done.calls, InitialCall(energies[n])),
              list  |-> IF sim[n].raised THEN done.list
                        ELSE Append(done.list,
                                    [E_MeV_u |-> energies[n], ks |-> sim[n].ks])]

\* k_s_exp_min = exp_subset["k_s"].min(), exp_subset the rows of the energy
KsExpMin(rows, energy) ==
    LET ks == {rows[i].k_s : i \in {j \in DOMAIN rows : rows[j].Energy_MeV = energy}}
    IN  CHOOSE m \in ks : \A v \in ks : m <= v

\* The k_s values are floating-point numbers.  The model keeps the arithmetic of
\* binary floating point at a reduced width: a number is an integer of at most
\* FloatBits significant bits times a power of two, and the result of an
\* operation is rounded to the nearest such number, ties to the even significand.
FloatBits == 3

RECURSIVE Pow2(_)
Pow2(n) == IF n = 0 THEN 1 ELSE 2 * Pow2(n - 1)

RECURSIVE Spacing(_, _)
\* the distance between neighbouring numbers at magnitude a
Spacing(a, u) == IF a < Pow2(FloatBits) * u THEN u ELSE Spacing(a, 2 * u)

RoundFloat(x) ==
    LET a == IF x < 0 THEN 0 - x ELSE x
        u == Spacing(a, 1)
        q == a \div u
        r == a % u
        m == IF 2 * r < u THEN q
             ELSE IF 2 * r > u THEN q + 1
             ELSE IF q % 2 = 0 THEN q ELSE q + 1
    IN  IF x < 0 THEN 0 - (m * u) ELSE m * u

\* a - b in floating point
FloatSub(a, b) == RoundFloat(a - b)

\* 100 * a / b: the product rounded, the quotient kept as the pair it is the
\* correctly rounded value of
Percent(a, b) == [num |-> RoundFloat(100 * a), den |-> b]

InitialRecord(energy, k_s_exp_min, k_s_iontracks) ==
    [Energy_MeV       |-> energy,
     k_s_experimental |-> k_s_exp_min,
     k_s_IonTracks    |-> k_s_iontracks,
     difference       |-> FloatSub(k_s_iontracks, k_s_exp_min),
     relative_error   |-> Percent(FloatSub(k_s_iontracks, k_s_exp_min), k_s_exp_min)]

RECURSIVE ComparisonInitial(_, _, _)
\* the loop over energies_MeV that fills comparison_list
ComparisonInitial(rows, energies, results) ==
    IF energies = <<>> THEN <<>>
    ELSE LET n      == Len(energies)
             done   == ComparisonInitial(rows, SubSeq(energies, 1, n - 1), results)
             subset == SelectSeq(results, LAMBDA r : r.E_MeV_u = energies[n])
         IN  IF Len(subset) > 0
             THEN Append(done, InitialRecord(energies[n], KsExpMin(rows, energies[n]),
                                             subset[1].ks))
             ELSE done

RANDINT_HIGH == 10000000

\* "Determine seed": the configured seed, else random.randint(1, int(1e7))
BaseSeeds(cfg) ==
    IF cfg.seed = NoSeed THEN {b \in 1..MaxBaseSeed : b <= RANDINT_HIGH} ELSE {cfg.seed[1]}

\* Mutant of RowSeed: every row gets the base seed.
RowSeedSame(seed, idx) == seed

\* myseed=seed + idx
RowSeed(seed, idx) == seed + idx

ContinuousCall(row, seed) ==
    [fn              |-> "IonTracks_continuous_beam",
     E_MeV_u         |-> row.Energy_MeV,
     doserate_Gy_min |-> row.dose_rate_Gy_min,
     myseed          |-> RowSeed(seed, row.index)]

RECURSIVE ContinuousLoopSkip(_, _, _)
\* Mutant of ContinuousLoop: a failed row appends nothing.
ContinuousLoopSkip(rows, seed, sim) ==
    IF rows = <<>> THEN [calls |-> <<>>, list |-> <<>>]
    ELSE LET n    == Len(rows)
             done == ContinuousLoopSkip(SubSeq(rows, 1, n - 1), seed, sim)
         IN  [calls |-> Append(done.calls, ContinuousCall(rows[n], seed)),
              list  |-> IF sim[n].raised THEN done.list
                        ELSE Append(done.list, [ks_IonTracks |-> sim[n].ks,
                                                E_MeV_u      |-> rows[n].Energy_MeV])]

RECURSIVE ContinuousLoop(_, _, _)
\* "for idx, row in self.exp_data.iterrows(): try ... append(result) except ...
\* append(NaN placeholder)": the calls made and continuous_results_list after the loop
ContinuousLoop(rows, seed, sim) ==
    IF rows = <<>> THEN [calls |-> <<>>, list |-> <<>>]
    ELSE LET n    == Len(rows)
             done == ContinuousLoop(SubSeq(rows, 1, n - 1), seed, sim)
         IN  [calls |-> Append(done.calls, ContinuousCall(rows[n], seed)),
              list  |-> Append(done.list,
                               [ks_IonTracks |-> IF sim[n].raised THEN NaN ELSE sim[n].ks,
                                E_MeV_u      |-> rows[n].Energy_MeV])]

\* Mutant of Minus: the operands are exchanged.
MinusReversed(a, b) == IF a = NaN \/ b = NaN THEN NaN ELSE FloatSub(b, a)

Minus(a, b) == IF a = NaN \/ b = NaN THEN NaN ELSE FloatSub(a, b)

Abs(a) == IF a = NaN THEN NaN ELSE IF a < 0 THEN 0 - a ELSE a

PercentNaN(a, b) == IF a = NaN \/ b = NaN THEN [num |-> NaN, den |-> NaN] ELSE Percent(a, b)

ContinuousRecord(row, k_s_iontracks) ==
    [index            |-> row.index,
     Energy_MeV       |-> row.Energy_MeV,
     k_s              |-> row.k_s,
     dose_rate_Gy_s   |-> row.dose_rate_Gy_s,
     dose_rate_Gy_min |-> row.dose_rate_Gy_min,
     k_s_IonTracks    |-> k_s_iontracks,
     difference       |-> Minus(k_s_iontracks, row.k_s),
     relative_error   |-> PercentNaN(Minus(k_s_iontracks, row.k_s), row.k_s),
     absolute_error   |-> Abs(Minus(k_s_iontracks, row.k_s))]

\* comparison_continuous before dropna: exp_data.copy() with the four added
\* columns, the values of continuous_df["ks_IonTracks"] taken by position
ComparisonFrame(rows, results) ==
    [i \in DOMAIN rows |-> ContinuousRecord(rows[i], results[i].ks_IonTracks)]

\* Mutant of DropNa: nothing is dropped.
DropNaNothing(frame) == frame

\* comparison_continuous.dropna(subset=["k_s_IonTracks"])
DropNa(frame) == SelectSeq(frame, LAMBDA row : row.k_s_IonTracks # NaN)

-----------------------------------------------------------------------------
(* Input tables *)

\* pd.read_csv infers the dtype of a column from its cells: numeric when the
\* column has a cell and no cell is text
ReadCsvColumn(name, cells) ==
    [name    |-> name,
     numeric |-> Len(cells) > 0 /\ \A i \in DOMAIN cells : cells[i] # Str,
     vals    |-> cells]

AllNames ==
    REQUIRED_COLUMNS.energy \o REQUIRED_COLUMNS.ks \o REQUIRED_COLUMNS.dose_rate_air
    \o REQUIRED_COLUMNS.dose_rate_water
    \o <<"dose_rate_Gy_s", "dose_rate_Gy_min", "foo">>

RECURSIVE SetToSeq(_)
SetToSeq(S) ==
    IF S = {} THEN <<>>
    ELSE LET m == CHOOSE x \in S : \A y \in S : x <= y
         IN  <<m>> \o SetToSeq(S \ {m})

Headers ==
    {SetToSeq(S) : S \in {T \in SUBSET DOMAIN AllNames : T # {} /\ Cardinality(T) <= MaxCols}}

FooCells == {0, 1}

\* tables of one row under every choice of at most MaxCols column labels; the
\* cells are 1, but for the cell of column foo
CsvByNames ==
    {[i \in DOMAIN h |-> ReadCsvColumn(AllNames[h[i]],
                             IF AllNames[h[i]] = "foo" THEN <<c>> ELSE <<1>>)] :
        h \in Headers, c \in FooCells}

EnergyCells == {0, 1, NaN, Str}

KsCells == {0, 1, Str}

DoseCells == {-1, 0, NaN, Str}

\* tables of three aliased columns under every choice of at most MaxLoadRows rows of cells
CsvByCells ==
    UNION {{<<ReadCsvColumn("Energy_MeV", ce), ReadCsvColumn("k_s", ck),
              ReadCsvColumn("dose_rate_air_Gy_s", cd)>> :
                ce \in [1..n -> EnergyCells], ck \in [1..n -> KsCells],
                cd \in [1..n -> DoseCells]} : n \in 0..MaxLoadRows}

Config(e, k, d, seed) ==
    [energy_column |-> e, ks_column |-> k, dose_rate_column |-> d, seed |-> seed,
     compare_initial_recombination |-> TRUE, compare_continuous_beam |-> TRUE]

ConfigsByNames ==
    {Config(e, k, d, NoSeed) : e \in {None, "foo", "E_MeV"}, k \in {None, "foo", "ks"},
                             d \in {None, "foo", "dose_rate_water"}}

ConfigsByCells == {Config(e, None, None, NoSeed) : e \in {None, "Energy_MeV"}}

NoOutcome == [op |-> "none"]

Range(s) == {s[i] : i \in DOMAIN s}

InitRunner ==
    /\ pc = "start"
    /\ exp_data = <<>>
    /\ initial_results = NoFrame
    /\ continuous_results = NoFrame
    /\ comparison_initial = NoFrame
    /\ comparison_continuous = NoFrame
    /\ calls = <<>>
    /\ outcome = NoOutcome

-----------------------------------------------------------------------------
(* Specification of the loader: one call of load_experimental_data *)

InitLoad ==
    /\ \/ csv \in CsvByNames /\ config \in ConfigsByNames
       \/ csv \in CsvByCells /\ config \in ConfigsByCells
    /\ InitRunner

LoadCall ==
    /\ pc = "start"
    /\ pc' = "done"
    /\ outcome' = [op     |-> "load_experimental_data",
                   result |-> load_experimental_data(csv, config.energy_column,
                                  config.ks_column, config.dose_rate_column)]
    /\ UNCHANGED <<csv, config, exp_data, initial_results, continuous_results,
                   comparison_initial, comparison_continuous, calls>>

\* the arguments of a direct call: the configured names, else the first aliases
ValidateArgs ==
    <<IF config.energy_column = None THEN "Energy_MeV" ELSE config.energy_column,
      IF config.ks_column = None THEN "k_s" ELSE config.ks_column,
      IF config.dose_rate_column = None THEN "dose_rate_air_Gy_s"
      ELSE config.dose_rate_column>>

ValidateCall ==
    /\ pc = "start"
    /\ pc' = "done"
    /\ outcome' = [op     |-> "validate_experimental_data",
                   args   |-> ValidateArgs,
                   result |-> validate_experimental_data(csv, ValidateArgs[1],
                                  ValidateArgs[2], ValidateArgs[3])]
    /\ UNCHANGED <<csv, config, exp_data, initial_results, continuous_results,
                   comparison_initial, comparison_continuous, calls>>

NextLoad == LoadCall \/ ValidateCall

SpecLoad == InitLoad /\ [][NextLoad]_vars

Loaded == outcome.op = "load_experimental_data"

Validated == outcome.op = "validate_experimental_data"

-----------------------------------------------------------------------------
(* Specifications of the runner: construction, then one call of a phase *)

RunEnergies == {1, 2}

RunKs == {1, 2}

CsvRows(dose_rates) ==
    UNION {{<<ReadCsvColumn("Energy_MeV", ce), ReadCsvColumn("k_s", ck),
              ReadCsvColumn("dose_rate_air_Gy_s", cd)>> :
                ce \in [1..n -> RunEnergies], ck \in [1..n -> RunKs],
                cd \in [1..n -> dose_rates]} : n \in 0..MaxRows}

ConfigSeeds == {NoSeed, <<7>>}

ConfigsRun == {Config(None, None, None, seed) : seed \in ConfigSeeds}

\* ComparisonRunner.__init__
Construct ==
    /\ pc = "start"
    /\ LET r == load_experimental_data(csv, config.energy_column, config.ks_column,
                                       config.dose_rate_column)
       IN  /\ pc' = IF r.raised THEN "failed" ELSE "ready"
           /\ exp_data' = IF r.raised THEN exp_data ELSE r.df
           /\ outcome' = [op |-> "__init__", raised |-> r.raised, result |-> r]
    /\ initial_results' = NoFrame
    /\ continuous_results' = NoFrame
    /\ comparison_initial' = NoFrame
    /\ comparison_continuous' = NoFrame
    /\ UNCHANGED <<csv, config, calls>>

\* Mutant of StoredAfterGuard: the attribute is assigned before the guard raises.
StoredBeforeGuard(list, prior, value) == value

\* Mutant of StoredAfterGuard: the new records are appended to the stored ones.
StoredAdditive(list, prior, value) ==
    IF list = <<>> THEN prior
    ELSE IF prior.set THEN Frame(prior.rows \o value.rows) ELSE value

\* "if not ..._results_list: raise RuntimeError(...)" and, after it,
\* "self.<attribute> = ...": the attribute keeps its prior value when the guard
\* raises, and is rebound to the new frame otherwise
StoredAfterGuard(list, prior, value) == IF list = <<>> THEN prior ELSE value

InitialOutcome(raised, exc, energies, sim, returned) ==
    [op |-> "run_initial_recombination", raised |-> raised, exc |-> exc,
     energies |-> energies, sim |-> sim, returned |-> returned,
     prior |-> comparison_initial]

\* ComparisonRunner.run_initial_recombination
RunInitial ==
    /\ pc = "ready"
    /\ \E sim \in [1..Len(Energies(ExpRows(exp_data))) -> SimOutcomes] :
          LET rows     == ExpRows(exp_data)
              energies == Energies(rows)
              loop     == InitialLoop(energies, sim)
              table    == ComparisonInitial(rows, energies, loop.list)
          IN  /\ calls' = loop.calls
              /\ initial_results' =
                     StoredAfterGuard(loop.list, initial_results, Frame(loop.list))
              /\ comparison_initial' =
                     StoredAfterGuard(loop.list, comparison_initial, Frame(table))
              /\ outcome' = IF loop.list = <<>>
                            THEN InitialOutcome(TRUE, "RuntimeError", energies, sim, NoFrame)
                            ELSE InitialOutcome(FALSE, "", energies, sim, Frame(table))
    /\ UNCHANGED <<csv, config, pc, exp_data, continuous_results, comparison_continuous>>

ContinuousOutcome(raised, exc, seed, sim, successful, returned) ==
    [op |-> "run_continuous_beam", raised |-> raised, exc |-> exc, seed |-> seed,
     sim |-> sim, successful |-> successful, total |-> NRows(exp_data),
     returned |-> returned, prior |-> comparison_continuous]

\* ComparisonRunner.run_continuous_beam
RunContinuous ==
    /\ pc = "ready"
    /\ \E seed \in BaseSeeds(config) :
       \E sim \in [1..NRows(exp_data) -> SimOutcomes] :
          LET rows  == ExpRows(exp_data)
              loop  == ContinuousLoop(rows, seed, sim)
              clean == DropNa(ComparisonFrame(rows, loop.list))
          IN  /\ calls' = loop.calls
              /\ IF loop.list = <<>>
                 THEN /\ outcome' = ContinuousOutcome(TRUE, "RuntimeError", seed, sim,
                                                      0, NoFrame)
                      /\ UNCHANGED <<continuous_results, comparison_continuous>>
                 ELSE IF Len(loop.list) # Len(rows)
                 THEN \* the column assignment of line 182 needs one value per row
                      /\ continuous_results' = Frame(loop.list)
                      /\ outcome' = ContinuousOutcome(TRUE, "ValueError", seed, sim,
                                                      0, NoFrame)
                      /\ UNCHANGED comparison_continuous
                 ELSE /\ continuous_results' =
                             StoredAfterGuard(loop.list, continuous_results,
                                              Frame(loop.list))
                      /\ comparison_continuous' =
                             StoredAfterGuard(loop.list, comparison_continuous,
                                              Frame(clean))
                      /\ outcome' = ContinuousOutcome(FALSE, "", seed, sim,
                                                      Len(clean), Frame(clean))
    /\ UNCHANGED <<csv, config, pc, exp_data, initial_results, comparison_initial>>

\* the runner was constructed and no phase has run on it yet
Fresh == outcome.op = "__init__"

InitialDoseRates == {0, 1}

InitInitial ==
    /\ csv \in CsvRows(InitialDoseRates)
    /\ config \in {Config(None, None, None, NoSeed)}
    /\ InitRunner

NextInitial == Construct \/ (Fresh /\ RunInitial)

SpecInitial == InitInitial /\ [][NextInitial]_vars

ContinuousDoseRates == {1}

InitContinuous ==
    /\ csv \in CsvRows(ContinuousDoseRates)
    /\ config \in ConfigsRun
    /\ InitRunner

NextContinuous == Construct \/ (Fresh /\ RunContinuous)

SpecContinuous == InitContinuous /\ [][NextContinuous]_vars

MaxRerunRows == 2

\* a runner on which the phases are invoked any number of times, in any order
InitRerun ==
    /\ csv \in {c \in CsvRows(ContinuousDoseRates) : NRows(c) <= MaxRerunRows}
    /\ config \in {Config(None, None, None, <<7>>)}
    /\ InitRunner

NextRerun == Construct \/ RunInitial \/ RunContinuous

SpecRerun == InitRerun /\ [][NextRerun]_vars

-----------------------------------------------------------------------------
(* Specification of main(): runner, run_all, save_results, generate_all_plots *)

MaxMainRows == 2

MainEnergyCells == {1, 2, NaN}

\* 1, and a number of the format for which a difference from 1 is no number of
\* the format
MainKsCells == {1, Pow2(FloatBits) + 2}

\* tables of up to MaxMainRows rows, and a table that has no dose rate column
MainCsv ==
    UNION {{<<ReadCsvColumn("Energy_MeV", ce), ReadCsvColumn("k_s", ck),
              ReadCsvColumn("dose_rate_air_Gy_s", [i \in 1..n |-> 1])>> :
                ce \in [1..n -> MainEnergyCells], ck \in [1..n -> MainKsCells]} :
           n \in 0..MaxMainRows}
    \cup {<<ReadCsvColumn("Energy_MeV", <<1>>), ReadCsvColumn("k_s", <<1>>)>>}

ConfigsMain ==
    {[Config(None, k, None, <<7>>) EXCEPT !.compare_initial_recombination = a,
                                         !.compare_continuous_beam = b] :
        k \in {None, "foo"}, a \in BOOLEAN, b \in BOOLEAN}

InitMain ==
    /\ csv \in MainCsv
    /\ config \in ConfigsMain
    /\ InitRunner

\* what one phase did in a call of run_all
PhaseOutcome(requested, started, raised, sim) ==
    [requested |-> requested, started |-> started, raised |-> raised, sim |-> sim]

\* Mutant of StartsContinuous: the second phase starts whatever the first did.
StartsContinuousAlways(requested, raised_initial) == requested

\* run_all: "if self.config.compare_continuous_beam:" is reached only when
\* run_initial_recombination() did not raise, the exception leaving run_all
StartsContinuous(requested, raised_initial) == requested /\ ~raised_initial

\* ComparisonRunner.run_all, called by main() on the runner it constructed
RunAll ==
    /\ pc = "ready"
    /\ Fresh
    /\ LET rows     == ExpRows(exp_data)
           energies == Energies(rows)
           doI      == config.compare_initial_recombination
           reqC     == config.compare_continuous_beam
       IN  \E seed \in BaseSeeds(config) :
           \E simI \in [1..(IF doI THEN Len(energies) ELSE 0) -> SimOutcomes] :
              LET loopI   == IF doI THEN InitialLoop(energies, simI)
                             ELSE [calls |-> <<>>, list |-> <<>>]
                  table   == ComparisonInitial(rows, energies, loopI.list)
                  raisedI == doI /\ loopI.list = <<>>
                  doC     == StartsContinuous(reqC, raisedI)
              IN  \E simC \in [1..(IF doC THEN Len(rows) ELSE 0) -> SimOutcomes] :
              LET loopC   == IF doC THEN ContinuousLoop(rows, seed, simC)
                             ELSE [calls |-> <<>>, list |-> <<>>]
                  raisedC == doC /\ (loopC.list = <<>> \/ Len(loopC.list) # Len(rows))
                  clean   == IF doC /\ ~raisedC
                             THEN DropNa(ComparisonFrame(rows, loopC.list)) ELSE <<>>
              IN
                  /\ calls' = loopI.calls \o loopC.calls
                  /\ initial_results' =
                         IF doI THEN StoredAfterGuard(loopI.list, initial_results,
                                                      Frame(loopI.list))
                         ELSE initial_results
                  /\ comparison_initial' =
                         IF doI THEN StoredAfterGuard(loopI.list, comparison_initial,
                                                      Frame(table))
                         ELSE comparison_initial
                  /\ continuous_results' =
                         IF doC THEN StoredAfterGuard(loopC.list, continuous_results,
                                                      Frame(loopC.list))
                         ELSE continuous_results
                  /\ comparison_continuous' =
                         IF doC /\ ~raisedC
                         THEN StoredAfterGuard(loopC.list, comparison_continuous,
                                               Frame(clean))
                         ELSE comparison_continuous
                  /\ outcome' =
                         [op         |-> "run_all",
                          raised     |-> raisedI \/ raisedC,
                          exc        |-> IF raisedI \/ (doC /\ loopC.list = <<>>)
                                         THEN "RuntimeError"
                                         ELSE IF raisedC THEN "ValueError" ELSE "",
                          energies   |-> energies,
                          initial    |-> PhaseOutcome(doI, doI, raisedI, simI),
                          continuous |-> PhaseOutcome(reqC, doC, raisedC, simC)]
                  /\ pc' = IF raisedI \/ raisedC THEN "failed" ELSE "ran"
    /\ UNCHANGED <<csv, config, exp_data>>

\* ComparisonRunner.save_results: the files written to config.output_dir
SaveResults ==
    /\ pc = "ran"
    /\ pc' = "saved"
    /\ outcome' =
          [op    |-> "save_results",
           files |-> (IF comparison_initial.set /\ Len(comparison_initial.rows) > 0
                      THEN {"comparison_initial.csv"} ELSE {})
                     \cup
                     (IF comparison_continuous.set /\ Len(comparison_continuous.rows) > 0
                      THEN {"comparison_continuous.csv", "comparison_continuous_clean.csv"}
                      ELSE {})]
    /\ UNCHANGED <<csv, config, exp_data, initial_results, continuous_results,
                   comparison_initial, comparison_continuous, calls>>

\* generate_all_plots(runner.comparison_initial, runner.comparison_continuous, config)
GenerateAllPlots ==
    /\ pc = "saved"
    /\ pc' = "plotted"
    /\ outcome' =
          [op    |-> "generate_all_plots",
           files |-> (IF comparison_initial.set /\ Len(comparison_initial.rows) > 0
                      THEN {"initial_recombination_comparison.png"} ELSE {})
                     \cup
                     (IF comparison_continuous.set /\ Len(comparison_continuous.rows) > 0
                      THEN {"continuous_beam_comparison.png", "relative_error.png"}
                      ELSE {})]
    /\ UNCHANGED <<csv, config, exp_data, initial_results, continuous_results,
                   comparison_initial, comparison_continuous, calls>>

\* main(): "COMPARISON COMPLETED SUCCESSFULLY", and the process ends with status 0
MainCompleted ==
    /\ pc = "plotted"
    /\ pc' = "exit0"
    /\ outcome' = [op |-> "main", status |-> 0]
    /\ UNCHANGED <<csv, config, exp_data, initial_results, continuous_results,
                   comparison_initial, comparison_continuous, calls>>

\* main(): "except Exception as e: ... sys.exit(1)"
MainExcept ==
    /\ pc = "failed"
    /\ pc' = "exit1"
    /\ outcome' = [op |-> "main", status |-> 1]
    /\ UNCHANGED <<csv, config, exp_data, initial_results, continuous_results,
                   comparison_initial, comparison_continuous, calls>>

NextMain ==
    Construct \/ RunAll \/ SaveResults \/ GenerateAllPlots \/ MainCompleted \/ MainExcept

SpecMain == InitMain /\ [][NextMain]_vars

\* main() is sequential code: once run_all has returned or an exception has
\* reached main(), the statement it is at is executed
SpecMainFair ==
    /\ SpecMain
    /\ WF_vars(SaveResults)
    /\ WF_vars(GenerateAllPlots)
    /\ WF_vars(MainCompleted)
    /\ WF_vars(MainExcept)

RanAll == outcome.op = "run_all"

RanInitial == outcome.op = "run_initial_recombination"

RanContinuous == outcome.op = "run_continuous_beam"

-----------------------------------------------------------------------------
(* C1..C4: run_continuous_beam *)

Failed == {i \in DOMAIN outcome.sim : outcome.sim[i].raised}

Succeeded == DOMAIN outcome.sim \ Failed

\* C1 as stated: when the simulation fails for every row, run_continuous_beam
\* raises instead of returning a comparison table.
C1_AllRowsFailedIsFatal ==
    (RanContinuous /\ Succeeded = {}) => outcome.raised

\* C2: continuous_results has one entry per row of the dataset, in the order of
\* the rows; entry i holds the value simulated for row i, or NaN when the
\* simulation of row i failed, whichever rows failed.
C2_RowAlignment ==
    RanContinuous =>
        /\ continuous_results.set
        /\ Len(continuous_results.rows) = NRows(exp_data)
        /\ \A i \in 1..NRows(exp_data) :
              /\ continuous_results.rows[i].E_MeV_u = Col(exp_data, "Energy_MeV").vals[i]
              /\ continuous_results.rows[i].ks_IonTracks
                    = IF outcome.sim[i].raised THEN NaN ELSE outcome.sim[i].ks

\* the middle row of three failed and its neighbours kept their places
C2_Witness ==
    /\ RanContinuous
    /\ NRows(exp_data) = 3
    /\ Failed = {2}
    /\ outcome.sim[1].ks # outcome.sim[3].ks
    /\ continuous_results.rows[2].ks_IonTracks = NaN
    /\ continuous_results.rows[3].ks_IonTracks = outcome.sim[3].ks

\* C3: one base seed per call of run_continuous_beam, the configured seed or an
\* integer of 1..10000000, and the simulation of row i is called with
\* base seed + i, after failed rows too.
C3_RowSeeds ==
    RanContinuous =>
        /\ config.seed # NoSeed => outcome.seed = config.seed[1]
        /\ config.seed = NoSeed => outcome.seed \in 1..RANDINT_HIGH
        /\ Len(calls) = NRows(exp_data)
        /\ \A i \in 1..NRows(exp_data) :
              /\ calls[i].fn = "IonTracks_continuous_beam"
              /\ calls[i].E_MeV_u = Col(exp_data, "Energy_MeV").vals[i]
              /\ calls[i].doserate_Gy_min = Col(exp_data, "dose_rate_Gy_min").vals[i]
              /\ calls[i].myseed = outcome.seed + (i - 1)

\* rows 0 and 1 failed and row 2 was still called with base seed + 2
C3_Witness ==
    /\ RanContinuous
    /\ config.seed = NoSeed
    /\ {1, 2} \subseteq Failed
    /\ Len(calls) = 3
    /\ calls[3].myseed = outcome.seed + 2

\* C4: the clean table holds exactly the rows whose simulation succeeded, in
\* order: total - failed rows, none with NaN as simulated value, and the summary
\* reports (total - failed) of total.
C4_CleanTable ==
    RanContinuous =>
        /\ ~outcome.raised
        /\ comparison_continuous.set
        /\ Len(comparison_continuous.rows) = NRows(exp_data) - Cardinality(Failed)
        /\ {r.index + 1 : r \in Range(comparison_continuous.rows)} = Succeeded
        /\ \A a, b \in DOMAIN comparison_continuous.rows :
              a < b => comparison_continuous.rows[a].index
                          < comparison_continuous.rows[b].index
        /\ \A r \in Range(comparison_continuous.rows) :
              /\ r.k_s_IonTracks # NaN
              /\ r.k_s_IonTracks = outcome.sim[r.index + 1].ks
              /\ r.k_s = Col(exp_data, "k_s").vals[r.index + 1]
        /\ outcome.successful = NRows(exp_data) - Cardinality(Failed)
        /\ outcome.total = NRows(exp_data)

\* one of three rows failed: two clean rows, 2/3 reported
C4_Witness ==
    /\ RanContinuous
    /\ NRows(exp_data) = 3
    /\ Cardinality(Failed) = 1
    /\ Len(comparison_continuous.rows) = 2
    /\ outcome.successful = 2
    /\ outcome.total = 3

-----------------------------------------------------------------------------
(* C5, C6: run_initial_recombination *)

Group(energy) ==
    {i \in 1..NRows(exp_data) : Col(exp_data, "Energy_MeV").vals[i] = energy}

HasMinDoseRate(i, energy) ==
    \A j \in Group(energy) :
        Col(exp_data, "dose_rate_Gy_s").vals[i] <= Col(exp_data, "dose_rate_Gy_s").vals[j]

\* C5 as stated: the experimental reference of an energy is the k_s of a row of
\* that energy which has the minimum dose rate of the group.
C5_ReferenceIsMinDoseRateRow ==
    (RanInitial /\ ~outcome.raised) =>
        \A r \in Range(comparison_initial.rows) :
            \E i \in Group(r.Energy_MeV) :
                /\ HasMinDoseRate(i, r.Energy_MeV)
                /\ r.k_s_experimental = Col(exp_data, "k_s").vals[i]

DistinctEnergies == Range(Col(exp_data, "Energy_MeV").vals)

\* the positions, in call order, of the energies whose simulation returned
Returned == {i \in DOMAIN outcome.sim : ~outcome.sim[i].raised}

\* C6: every distinct energy is simulated once, in ascending order, also after
\* a failure; the energies that failed are left out of the results; the phase
\* raises exactly when no energy produced a result.
C6_InitialFailureIsolation ==
    RanInitial =>
        /\ Len(calls) = Cardinality(DistinctEnergies)
        /\ {calls[i].E_MeV_u : i \in DOMAIN calls} = DistinctEnergies
        /\ \A i, j \in DOMAIN calls : i < j => calls[i].E_MeV_u < calls[j].E_MeV_u
        /\ \A i \in DOMAIN calls : calls[i].fn = "ks_initial_IonTracks"
        /\ outcome.raised <=> Returned = {}
        /\ outcome.raised => outcome.exc = "RuntimeError"
        /\ ~outcome.raised =>
              /\ Len(initial_results.rows) = Cardinality(Returned)
              /\ \A i \in Returned :
                    [E_MeV_u |-> calls[i].E_MeV_u, ks |-> outcome.sim[i].ks]
                        \in Range(initial_results.rows)
              /\ {r.Energy_MeV : r \in Range(comparison_initial.rows)}
                    = {calls[i].E_MeV_u : i \in Returned}
              /\ Len(comparison_initial.rows) = Cardinality(Returned)

\* the dataset lists the higher energy first; the lower one is simulated first
\* and fails, the higher one is still simulated and the phase returns
C6_Witness ==
    /\ RanInitial
    /\ Col(exp_data, "Energy_MeV").vals[1] = 2
    /\ Len(calls) = 2
    /\ calls[1].E_MeV_u = 1
    /\ outcome.sim[1].raised
    /\ ~outcome.sim[2].raised
    /\ ~outcome.raised
    /\ Len(comparison_initial.rows) = 1
    /\ comparison_initial.rows[1].Energy_MeV = 2

-----------------------------------------------------------------------------
(* C7: validate_experimental_data *)

Roles == {1, 2, 3}

ArgsPresent == \A r \in Roles : outcome.args[r] \in Columns(csv)

ArgCol(r) == Col(csv, outcome.args[r])

\* the checks of the claim that the table violates, each tagged with its role
ViolatedChecks ==
    {<<"nan", r>> : r \in {q \in Roles : \E i \in DOMAIN ArgCol(q).vals :
                                              ArgCol(q).vals[i] = NaN}}
    \cup {<<"not_numeric", r>> : r \in {q \in Roles : ~ArgCol(q).numeric}}
    \cup {<<"non_positive", r>> : r \in {q \in {1, 2} :
              /\ ArgCol(q).numeric
              /\ \E i \in DOMAIN ArgCol(q).vals :
                    IsNumber(ArgCol(q).vals[i]) /\ ~(ArgCol(q).vals[i] > 0)}}
    \cup {<<"negative", r>> : r \in {q \in {3} :
              /\ ArgCol(q).numeric
              /\ \E i \in DOMAIN ArgCol(q).vals :
                    IsNumber(ArgCol(q).vals[i]) /\ ~(ArgCol(q).vals[i] >= 0)}}

EveryViolationReported ==
    /\ {<<m.kind, m.cols>> : m \in Range(outcome.result.errors)}
         = {<<c[1], <<outcome.args[c[2]]>> >> : c \in ViolatedChecks}
    /\ Len(outcome.result.errors) = Cardinality(ViolatedChecks)
    /\ \A m \in Range(outcome.result.errors) :
          m.kind = "nan" => m.n = nan_count(Col(csv, m.cols[1]))
    /\ outcome.result.ok <=> outcome.result.errors = <<>>

OnlyMissingReported ==
    /\ Len(outcome.result.errors) = 1
    /\ outcome.result.errors[1].kind = "missing"
    /\ Range(outcome.result.errors[1].cols)
         = {outcome.args[r] : r \in {q \in Roles : outcome.args[q] \notin Columns(csv)}}
    /\ ~outcome.result.ok

\* C7 as stated: with the three columns present every violated check of the
\* claim's list has its one message and the flag is true exactly when the list
\* is empty; with a column missing only the missing-columns error is returned.
C7_AsStated ==
    Validated =>
        /\ ArgsPresent => EveryViolationReported
        /\ ~ArgsPresent => OnlyMissingReported

\* C7 amended: the same, for a table of at least one row; a table of no rows
\* whose three columns are present gets the single error "DataFrame is empty" and
\* no value-domain check.
C7_ValidationReportsAll ==
    Validated =>
        /\ (ArgsPresent /\ NRows(csv) > 0) => EveryViolationReported
        /\ (ArgsPresent /\ NRows(csv) = 0) =>
               /\ outcome.result.errors = <<Msg("empty", <<>>, 0)>>
               /\ ~outcome.result.ok
        /\ ~ArgsPresent => OnlyMissingReported

\* a non-numeric energy column and a negative dose rate, both reported
C7_Witness ==
    /\ Validated
    /\ ArgsPresent
    /\ {<<"not_numeric", 1>>, <<"negative", 3>>} \subseteq ViolatedChecks
    /\ Len(outcome.result.errors) >= 2


-----------------------------------------------------------------------------
(* C8, C9: column resolution in load_experimental_data *)

Res == outcome.result

NoMatch(aliases) == \A p \in DOMAIN aliases : aliases[p] \notin Columns(csv)

\* r is a column of the table, and no name before it in the list is
FirstMatch(aliases, r) ==
    \E p \in DOMAIN aliases :
        /\ aliases[p] = r
        /\ r \in Columns(csv)
        /\ \A q \in 1..(p - 1) : aliases[q] \notin Columns(csv)

EnergyUnresolved == config.energy_column = None /\ NoMatch(REQUIRED_COLUMNS.energy)

KsUnresolved == config.ks_column = None /\ NoMatch(REQUIRED_COLUMNS.ks)

DoseRateUnresolved ==
    /\ config.dose_rate_column = None
    /\ NoMatch(REQUIRED_COLUMNS.dose_rate_air)
    /\ NoMatch(REQUIRED_COLUMNS.dose_rate_water)

NotFound(tried) ==
    /\ Res.raised
    /\ Res.exc = "ValueError"
    /\ Res.kind = "column_not_found"
    /\ Res.tried = tried

\* C8: an unspecified role resolves to the first name of its alias list that is a
\* column of the table (dose rate: the first air alias, a water alias only when
\* no air alias is a column), and loading fails with the column-not-found error
\* naming every alias tried when none is a column.
C8_FirstAliasWins ==
    Loaded =>
        /\ (config.energy_column = None /\ ~EnergyUnresolved)
              => FirstMatch(REQUIRED_COLUMNS.energy, Res.cols.energy)
        /\ EnergyUnresolved => NotFound(REQUIRED_COLUMNS.energy)
        /\ (~EnergyUnresolved /\ config.ks_column = None /\ ~KsUnresolved)
              => FirstMatch(REQUIRED_COLUMNS.ks, Res.cols.ks)
        /\ (~EnergyUnresolved /\ KsUnresolved) => NotFound(REQUIRED_COLUMNS.ks)
        /\ (~EnergyUnresolved /\ ~KsUnresolved /\ config.dose_rate_column = None
               /\ ~NoMatch(REQUIRED_COLUMNS.dose_rate_air))
              => FirstMatch(REQUIRED_COLUMNS.dose_rate_air, Res.cols.dose_rate)
        /\ (~EnergyUnresolved /\ ~KsUnresolved /\ config.dose_rate_column = None
               /\ NoMatch(REQUIRED_COLUMNS.dose_rate_air) /\ ~DoseRateUnresolved)
              => FirstMatch(REQUIRED_COLUMNS.dose_rate_water, Res.cols.dose_rate)
        /\ (~EnergyUnresolved /\ ~KsUnresolved /\ DoseRateUnresolved)
              => NotFound(REQUIRED_COLUMNS.dose_rate_air
                          \o REQUIRED_COLUMNS.dose_rate_water)

\* two energy aliases are columns and the earlier one is taken, no air alias is a
\* column and the first of two water aliases is taken
C8_Witness ==
    /\ Loaded
    /\ config.energy_column = None
    /\ config.dose_rate_column = None
    /\ {"E_MeV", "energy"} \subseteq Columns(csv)
    /\ Res.cols.energy = "E_MeV"
    /\ {"dose_rate_water", "doserate_water_Gy_s"} \subseteq Columns(csv)
    /\ Res.cols.dose_rate = "dose_rate_water"

AnyUnresolved == EnergyUnresolved \/ KsUnresolved \/ DoseRateUnresolved

Given == <<config.energy_column, config.ks_column, config.dose_rate_column>>

Resolved == <<Res.cols.energy, Res.cols.ks, Res.cols.dose_rate>>

-----------------------------------------------------------------------------
(* C10: the dataset load_experimental_data returns *)

CellsOf(df, name) == UNION {Range(df[i].vals) : i \in Labelled(df, name)}

\* C10 as stated: a returned dataset has the three canonical columns, Energy_MeV
\* and k_s positive and dose_rate_Gy_s not negative in every row, and
\* dose_rate_Gy_min = dose_rate_Gy_s * 60 in every row.
C10_CanonicalInvariant ==
    (Loaded /\ ~Res.raised) =>
        /\ {"Energy_MeV", "k_s", "dose_rate_Gy_s", "dose_rate_Gy_min"}
              \subseteq Columns(Res.df)
        /\ \A v \in CellsOf(Res.df, "Energy_MeV") : IsNumber(v) /\ v > 0
        /\ \A v \in CellsOf(Res.df, "k_s") : IsNumber(v) /\ v > 0
        /\ \A v \in CellsOf(Res.df, "dose_rate_Gy_s") : IsNumber(v) /\ v >= 0
        /\ \A i \in Labelled(Res.df, "dose_rate_Gy_s") :
           \A j \in Labelled(Res.df, "dose_rate_Gy_min") :
           \A n \in 1..NRows(Res.df) :
               /\ IsNumber(Res.df[j].vals[n])
               /\ Res.df[j].vals[n] = Res.df[i].vals[n] * 60

-----------------------------------------------------------------------------
(* C11: re-invocation of a phase *)

\* the records the initial phase stores for the invocation described by o: one
\* per energy whose simulation returned, with the value it returned
InitialRecordsOf(o) ==
    {<<o.energies[i], o.sim[i].ks>> : i \in {j \in DOMAIN o.sim : ~o.sim[j].raised}}

\* the records the continuous phase stores for the invocation described by o
ContinuousRecordsOf(o) ==
    {<<i - 1, o.sim[i].ks>> : i \in {j \in DOMAIN o.sim : ~o.sim[j].raised}}

Injective(rows, key(_)) ==
    \A i, j \in DOMAIN rows : key(rows[i]) = key(rows[j]) => i = j

EnergyOf(rec) == rec.Energy_MeV

IndexOf(rec) == rec.index

\* C11: after every returning invocation of a phase the stored table of that
\* phase holds exactly the records of this invocation, one per energy (initial)
\* or one per input row (continuous), whatever was stored before; and a step of
\* one phase leaves the stored results of the other phase as they were.
C11_RerunOverwrites ==
    [][/\ (outcome'.op = "run_initial_recombination") =>
              /\ UNCHANGED <<continuous_results, comparison_continuous>>
              /\ ~outcome'.raised =>
                    /\ {<<r.Energy_MeV, r.k_s_IonTracks>> :
                            r \in Range(comparison_initial'.rows)} = InitialRecordsOf(outcome')
                    /\ {<<r.E_MeV_u, r.ks>> :
                            r \in Range(initial_results'.rows)} = InitialRecordsOf(outcome')
                    /\ Injective(comparison_initial'.rows, EnergyOf)
                    /\ Len(initial_results'.rows) = Cardinality(InitialRecordsOf(outcome'))
       /\ (outcome'.op = "run_continuous_beam") =>
              /\ UNCHANGED <<initial_results, comparison_initial>>
              /\ ~outcome'.raised =>
                    /\ {<<r.index, r.k_s_IonTracks>> :
                            r \in Range(comparison_continuous'.rows)}
                          = ContinuousRecordsOf(outcome')
                    /\ Injective(comparison_continuous'.rows, IndexOf)
                    /\ Len(continuous_results'.rows) = NRows(exp_data)
      ]_vars

\* a phase returned on a runner that stored a different table of that phase
\* before the call, while the other phase has a stored table too
C11_Witness ==
    /\ RanInitial /\ ~outcome.raised
    /\ outcome.prior.set /\ outcome.prior # comparison_initial
    /\ Len(outcome.prior.rows) > Len(comparison_initial.rows)
    /\ comparison_continuous.set /\ Len(comparison_continuous.rows) > 0

-----------------------------------------------------------------------------
(* C12: a table that cannot be loaded *)

RoleAliases ==
    <<REQUIRED_COLUMNS.energy, REQUIRED_COLUMNS.ks,
      REQUIRED_COLUMNS.dose_rate_air \o REQUIRED_COLUMNS.dose_rate_water>>

\* the column of the table that stands for role r
SourceColumn(r) ==
    IF Given[r] # None THEN Given[r]
    ELSE CHOOSE c \in Range(RoleAliases[r]) : FirstMatch(RoleAliases[r], c)

BadCell(r, v) ==
    \/ ~IsNumber(v)
    \/ r \in {1, 2} /\ ~(v > 0)
    \/ r = 3 /\ ~(v >= 0)

\* every role has its column, and the table breaks a rule of the validation
ValidationFails ==
    /\ ~AnyUnresolved
    /\ \/ \E r \in Roles : SourceColumn(r) \notin Columns(csv)
       \/ NRows(csv) = 0
       \/ \E r \in Roles : \E v \in Range(Col(csv, SourceColumn(r)).vals) : BadCell(r, v)

\* C12: when a role has no column or the validation fails, no simulation
\* function is ever called, no runner comes to exist (the constructor raised, no
\* dataset and no result is stored) and main() never gets past the constructor.
C12_LoadFailureBeforeSimulation ==
    (AnyUnresolved \/ ValidationFails) =>
        /\ calls = <<>>
        /\ pc \in {"start", "failed", "exit1"}
        /\ (pc # "start") => (outcome.op \in {"__init__", "main"})
        /\ (outcome.op = "__init__") =>
               outcome.raised /\ outcome.result.kind \in {"column_not_found", "validation"}
        /\ exp_data = <<>>
        /\ ~initial_results.set /\ ~comparison_initial.set
        /\ ~continuous_results.set /\ ~comparison_continuous.set

\* both phases are requested, the table has two rows and no energy in one of
\* them, and main() has ended with status 1
C12_Witness ==
    /\ ValidationFails
    /\ NRows(csv) = 2
    /\ \A r \in Roles : SourceColumn(r) \in Columns(csv)
    /\ config.compare_initial_recombination /\ config.compare_continuous_beam
    /\ outcome = [op |-> "main", status |-> 1]
    /\ pc = "exit1"

-----------------------------------------------------------------------------
(* C13: a run with failed points *)

FailedIn(phase) == {i \in DOMAIN phase.sim : phase.sim[i].raised}

SucceededIn(phase) == DOMAIN phase.sim \ FailedIn(phase)

\* run_all was called, a simulation call failed, and each requested phase has a
\* call that returned
PartialSuccess ==
    /\ RanAll
    /\ FailedIn(outcome.initial) \cup FailedIn(outcome.continuous) # {}
    /\ outcome.initial.requested => SucceededIn(outcome.initial) # {}
    /\ outcome.continuous.requested => SucceededIn(outcome.continuous) # {}

\* C13: such a call of run_all returns without raising; from there the run
\* executes save_results, reaches "completed successfully" with status 0, and
\* never ends with the non-zero status.
C13_PartialFailureCompletes ==
    /\ [](PartialSuccess => (~outcome.raised /\ pc = "ran"))
    /\ (PartialSuccess ~> (outcome.op = "save_results"))
    /\ (PartialSuccess ~> (pc = "exit0" /\ outcome = [op |-> "main", status |-> 0]))
    /\ [](PartialSuccess => [](pc # "exit1"))

\* both phases are requested and each has a failed and a returned call
C13_Witness ==
    /\ PartialSuccess
    /\ outcome.initial.requested /\ outcome.continuous.requested
    /\ FailedIn(outcome.initial) # {} /\ SucceededIn(outcome.initial) # {}
    /\ FailedIn(outcome.continuous) # {} /\ SucceededIn(outcome.continuous) # {}
    /\ Len(comparison_continuous.rows) < NRows(exp_data)

-----------------------------------------------------------------------------
(* C14: the error columns *)

\* experimental + difference in floating point
Reconstructed(experimental, difference) == RoundFloat(experimental + difference)

\* the records run_all stored in this run
InitialRecords ==
    IF outcome.initial.started /\ ~outcome.initial.raised
    THEN Range(comparison_initial.rows) ELSE {}

ContinuousRecords ==
    IF outcome.continuous.started /\ ~outcome.continuous.raised
    THEN Range(comparison_continuous.rows) ELSE {}

ErrorFormulas(experimental, rec) ==
    /\ rec.difference = FloatSub(rec.k_s_IonTracks, experimental)
    /\ rec.relative_error =
          [num |-> RoundFloat(100 * FloatSub(rec.k_s_IonTracks, experimental)),
           den |-> experimental]

AbsoluteError(rec) ==
    rec.absolute_error = IF rec.difference < 0 THEN 0 - rec.difference ELSE rec.difference

\* simulated and experimental are within a factor of two of each other
WithinFactorTwo(simulated, experimental) ==
    simulated <= 2 * experimental /\ experimental <= 2 * simulated

\* C14 as stated: in every record of either protocol difference and
\* relative_error_% are computed from the simulated k_s and the record's
\* reference k_s as the claim's expressions, absolute_error = |difference| in a
\* continuous record, and experimental + difference is the simulated value.
C14_AsStated ==
    RanAll =>
        /\ \A rec \in InitialRecords :
              /\ ErrorFormulas(rec.k_s_experimental, rec)
              /\ Reconstructed(rec.k_s_experimental, rec.difference) = rec.k_s_IonTracks
        /\ \A rec \in ContinuousRecords :
              /\ ErrorFormulas(rec.k_s, rec)
              /\ AbsoluteError(rec)
              /\ Reconstructed(rec.k_s, rec.difference) = rec.k_s_IonTracks

\* C14 amended: the same, the reconstruction being exact for the records whose
\* simulated value is within a factor of two of the experimental one.
C14_ErrorFormulas ==
    RanAll =>
        /\ \A rec \in InitialRecords :
              /\ ErrorFormulas(rec.k_s_experimental, rec)
              /\ WithinFactorTwo(rec.k_s_IonTracks, rec.k_s_experimental) =>
                    Reconstructed(rec.k_s_experimental, rec.difference) = rec.k_s_IonTracks
        /\ \A rec \in ContinuousRecords :
              /\ ErrorFormulas(rec.k_s, rec)
              /\ AbsoluteError(rec)
              /\ WithinFactorTwo(rec.k_s_IonTracks, rec.k_s) =>
                    Reconstructed(rec.k_s, rec.difference) = rec.k_s_IonTracks

\* both protocols produced a record whose simulated value differs from the
\* experimental one and is within a factor of two of it
C14_Witness ==
    /\ RanAll
    /\ \E rec \in InitialRecords :
          /\ rec.difference # 0
          /\ WithinFactorTwo(rec.k_s_IonTracks, rec.k_s_experimental)
    /\ \E rec \in ContinuousRecords :
          /\ rec.difference # 0
          /\ WithinFactorTwo(rec.k_s_IonTracks, rec.k_s)
    /\ \E rec \in ContinuousRecords : ~WithinFactorTwo(rec.k_s_IonTracks, rec.k_s)

-----------------------------------------------------------------------------
(* C15: a fatal run_initial_recombination *)

\* C15: a call of run_initial_recombination that raises because no energy
\* produced a result leaves initial_results and comparison_initial, the two
\* results of the continuous phase and the dataset as they were before the call.
C15_FatalInitialKeepsState ==
    [][(outcome'.op = "run_initial_recombination" /\ outcome'.raised) =>
          /\ \A i \in DOMAIN outcome'.sim : outcome'.sim[i].raised
          /\ UNCHANGED <<initial_results, comparison_initial, continuous_results,
                         comparison_continuous, exp_data>>
      ]_vars

\* the call raised on a runner that holds the tables of an earlier returning
\* call and of the continuous phase
C15_Witness ==
    /\ RanInitial /\ outcome.raised
    /\ outcome.exc = "RuntimeError"
    /\ comparison_initial.set /\ Len(comparison_initial.rows) > 0
    /\ initial_results.set
    /\ outcome.prior = comparison_initial
    /\ comparison_continuous.set

-----------------------------------------------------------------------------
(* C16: the order of the phases and a fatal phase in main() *)

CallsOf(fn) == {i \in DOMAIN calls : calls[i].fn = fn}

\* the initial phase was requested and every energy failed
InitialFatal ==
    /\ config.compare_initial_recombination
    /\ \A i \in DOMAIN outcome.initial.sim : outcome.initial.sim[i].raised

\* the calls of run_all: those of the initial phase first, each phase only if
\* enabled, and none of the continuous phase after a fatal initial phase
PhaseOrder ==
    /\ \A i \in CallsOf("ks_initial_IonTracks") :
       \A j \in CallsOf("IonTracks_continuous_beam") : i < j
    /\ CallsOf("ks_initial_IonTracks") # {} <=> config.compare_initial_recombination
    /\ CallsOf("IonTracks_continuous_beam") # {} <=>
          (config.compare_continuous_beam /\ ~InitialFatal)
    /\ outcome.raised <=> InitialFatal
    /\ outcome.raised => ~comparison_initial.set /\ ~comparison_continuous.set

RunAllRaised == RanAll /\ outcome.raised

=============================================================================
